---- MODULE Spec2Model ----
(***************************************************************************)
(* The chat session component (multi-thread ChatExperience), the two       *)
(* route handlers it calls (/api/venice/chat, /api/venice/image) and the   *)
(* Venice gateway functions behind them, as one state machine.             *)
(*                                                                         *)
(* Text is a sequence of tokens (<<"Error: ", "quota exceeded">> is the    *)
(* template literal `Error: ${message}`); the empty sequence is the empty  *)
(* string.  null and undefined are the empty sequence too: the code only   *)
(* ever tests these values for truthiness.                                 *)
(***************************************************************************)
EXTENDS Integers, Sequences, FiniteSets, TLC

VARIABLES
    character,        \* props.character: [slug, photoUrl], fixed at mount
    apiKey,           \* process.env.VENICE_API_KEY is set
    storage,          \* window.localStorage[STORAGE_KEY]
    threads,          \* useState<ChatThread[]>
    activeThreadId,   \* useState<string>
    isHydrated,
    input,
    isImageMode,
    isVoiceMode,
    isEditMode,
    isProcessing,
    pendingIndicator, \* "image" | "text" | "null"
    errorMessage,
    inflight,         \* the handleSend invocations suspended at an await
    nextThreadId,     \* randomId() / Date.now() source for threads
    turnCount,        \* number of accepted submits (message ids derive from it)
    completed         \* the turn whose continuation ran in the last step, if any

vars == <<character, apiKey, storage, threads, activeThreadId, isHydrated, input,
          isImageMode, isVoiceMode, isEditMode, isProcessing, pendingIndicator,
          errorMessage, inflight, nextThreadId, turnCount, completed>>

-----------------------------------------------------------------------------
(* Bounds of the model *)

MaxThreadIds == 2
MaxTurns == 1

-----------------------------------------------------------------------------
(* Text *)

Null == <<>>

Truthy(s) == s # <<>>

RECURSIVE TrimStart(_)
TrimStart(s) == IF s # <<>> /\ Head(s) = " " THEN TrimStart(Tail(s)) ELSE s

RECURSIVE TrimEnd(_)
TrimEnd(s) ==
    IF s # <<>> /\ s[Len(s)] = " " THEN TrimEnd(SubSeq(s, 1, Len(s) - 1)) ELSE s

Trim(s) == TrimEnd(TrimStart(s))

\* a || b on strings
OrElse(a, b) == IF Truthy(a) THEN a ELSE b

-----------------------------------------------------------------------------
(* Provider Gateway: src/lib/venice.ts *)

\* The result of an async function: a value, or a thrown Error with a message.
Return(v) == [throws |-> FALSE, value |-> v, message |-> Null]
Throw(m) == [throws |-> TRUE, value |-> Null, message |-> m]

MissingKeyMsg == <<"Missing VENICE_API_KEY. Add it to your environment before using Venice endpoints.">>
EmptyCompletionMsg == <<"Venice returned an empty response.">>
NoImageGenerateMsg == <<"Venice image generation returned no images.">>
NoImageEditMsg == <<"Venice image edit returned no images.">>

\* The HTTP responses of the provider the model draws from: a success with
\* the given payload (Null: no choices / no images / zero bytes), or a
\* failure whose body carries an error field or none.
HttpResponses(payloads) ==
    { [ok |-> TRUE, status |-> 200, error |-> Null, body |-> b] : b \in payloads }
    \cup
    { [ok |-> FALSE, status |-> 500, error |-> e, body |-> Null] :
        e \in {Null, <<"quota exceeded">>} }

veniceFetch(r) ==
    IF ~apiKey THEN Throw(MissingKeyMsg)
    ELSE IF ~r.ok
         THEN Throw(IF Truthy(r.error) THEN r.error
                    ELSE <<"Venice request failed with status ", ToString(r.status)>>)
         ELSE Return(r.body)

createChatCompletion(r) ==
    LET data == veniceFetch(r) IN
    IF data.throws THEN data
    ELSE IF ~Truthy(data.value) THEN Throw(EmptyCompletionMsg)
    ELSE Return(data.value)

describeImage(r) == createChatCompletion(r)

generateImage(r) ==
    LET data == veniceFetch(r) IN
    IF data.throws THEN data
    ELSE IF ~Truthy(data.value) THEN Throw(NoImageGenerateMsg)
    ELSE Return(data.value)

editImage(r) ==
    LET data == veniceFetch(r) IN
    IF data.throws THEN data
    ELSE IF ~Truthy(data.value) THEN Throw(NoImageEditMsg)
    ELSE Return(data.value)

NoAudio == [base64 |-> Null, mimeType |-> Null]

\* responseFormat defaults to "mp3"; the routes never pass another one.
MimeTypeOf(responseFormat) ==
    IF responseFormat = "wav" THEN <<"audio/wav">>
    ELSE IF responseFormat = "ogg" THEN <<"audio/ogg">>
    ELSE <<"audio/mpeg">>

\* result.toString("base64") of a zero-byte buffer is the empty string.
synthesizeSpeech(r) ==
    LET result == veniceFetch(r) IN
    IF result.throws THEN [throws |-> TRUE, value |-> NoAudio, message |-> result.message]
    ELSE [throws |-> FALSE,
          value |-> [base64 |-> result.value, mimeType |-> MimeTypeOf("mp3")],
          message |-> Null]

-----------------------------------------------------------------------------
(* Messages and threads: ChatMessage, ChatThread, createThread *)

TextMessage(id, role, content) ==
    [id |-> id, role |-> role, type |-> "text", content |-> content,
     imageBase64 |-> Null, description |-> Null,
     audioBase64 |-> Null, mimeType |-> Null, text |-> Null]

\* An Image message that never carries the description.
ImageMessage_NoDescription(id, imageBase64, description) ==
    [id |-> id, role |-> "assistant", type |-> "image", content |-> Null,
     imageBase64 |-> imageBase64, description |-> Null,
     audioBase64 |-> Null, mimeType |-> Null, text |-> Null]

\* description: data.description || undefined
ImageMessage(id, imageBase64, description) ==
    [id |-> id, role |-> "assistant", type |-> "image", content |-> Null,
     imageBase64 |-> imageBase64, description |-> OrElse(description, Null),
     audioBase64 |-> Null, mimeType |-> Null, text |-> Null]

\* An Audio message without its transcript.
AudioMessage_NoTranscript(id, audioBase64, mimeType, text) ==
    [id |-> id, role |-> "assistant", type |-> "audio", content |-> Null,
     imageBase64 |-> Null, description |-> Null,
     audioBase64 |-> audioBase64, mimeType |-> mimeType, text |-> Null]

AudioMessage(id, audioBase64, mimeType, text) ==
    [id |-> id, role |-> "assistant", type |-> "audio", content |-> Null,
     imageBase64 |-> Null, description |-> Null,
     audioBase64 |-> audioBase64, mimeType |-> mimeType, text |-> text]

\* id: randomId(), createdAt: Date.now(); both come from the same fresh tick.
createThread(name, tick) ==
    [id |-> tick, name |-> name, createdAt |-> tick, messages |-> <<>>]

NoThread == [id |-> 0, name |-> Null, createdAt |-> 0, messages |-> <<>>]

ThreadIdsOf(ts) == { ts[i].id : i \in 1..Len(ts) }

\* slice(0, n): the oldest n entries.
SliceFirst(s, n) == SubSeq(s, 1, IF Len(s) > n THEN n ELSE Len(s))

SliceLast(s, n) == SubSeq(s, IF Len(s) > n THEN Len(s) - n + 1 ELSE 1, Len(s))

HistoryLimit == 20

-----------------------------------------------------------------------------
(* Persistence: StoredThreadsState under STORAGE_KEY *)

NoItem == [kind |-> "none", activeThreadId |-> 0, threads |-> <<>>]
Garbage == [kind |-> "garbage", activeThreadId |-> 0, threads |-> <<>>]
Stored(active, ts) == [kind |-> "state", activeThreadId |-> active, threads |-> ts]

\* A storage whose getItem and setItem throw (access denied, quota).
Broken == [kind |-> "broken", activeThreadId |-> 0, threads |-> <<>>]

\* Ids of threads written by an earlier session, and an id no thread ever had.
SavedId(k) == 100 + k
StaleId == SavedId(899)

\* Date.now() of the earlier session that created its k-th thread: before
\* every tick of this session.
SavedAt(k) == k - 100

\* A long log of an earlier session: more Text messages than the history
\* limit, with an Image turn and a Voice turn among them.
SavedMessages ==
    [i \in 1..(HistoryLimit + 3) |->
        IF i = 1 THEN TextMessage(900 + i, "user", <<"hi">>)
        ELSE IF i = 2 THEN TextMessage(900 + i, "assistant", <<"hello">>)
        ELSE IF i = 4 THEN ImageMessage(900 + i, <<"B64OLD">>, <<"An old oak">>)
        ELSE IF i = 5 THEN TextMessage(900 + i, "assistant", <<"Here is ", "An old oak">>)
        ELSE IF i = 8 THEN AudioMessage(900 + i, <<"B64OLDAUDIO">>, <<"audio/mpeg">>,
                                        <<"spoken ", ToString(7)>>)
        ELSE IF i = 6 \/ (i % 2 = 1 /\ i # 7)
             THEN TextMessage(900 + i, "user", <<"asked ", ToString(i)>>)
             ELSE TextMessage(900 + i, "assistant", <<"spoken ", ToString(i)>>)]

SavedThreads ==
    << [id |-> SavedId(1), name |-> <<"Session 1">>, createdAt |-> SavedAt(1),
        messages |-> << TextMessage(901, "user", <<"hi">>),
                        TextMessage(902, "assistant", <<"hello">>) >>],
       [id |-> SavedId(2), name |-> <<"Chat ", ToString(2)>>, createdAt |-> SavedAt(2),
        messages |-> <<>>] >>

\* What a session with that one long thread stored.
SavedSingleThread ==
    << [id |-> SavedId(3), name |-> <<"Session 1">>, createdAt |-> SavedAt(3),
        messages |-> SavedMessages] >>

\* A persist effect whose dependency list is [threads, isHydrated].
PersistEffect_ThreadsOnly ==
    storage' =
        IF isHydrated'
           /\ <<threads', isHydrated'>> # <<threads, isHydrated>>
           /\ storage.kind # "broken"
        THEN Stored(activeThreadId', threads')
        ELSE storage

\* The persist effect: runs after a render in which activeThreadId, threads
\* or isHydrated changed, and writes only once hydrated.
\* A failed write is caught and logged, and leaves the storage as it was.
PersistEffect ==
    storage' =
        IF isHydrated'
           /\ <<activeThreadId', threads', isHydrated'>> # <<activeThreadId, threads, isHydrated>>
           /\ storage.kind # "broken"
        THEN Stored(activeThreadId', threads')
        ELSE storage

-----------------------------------------------------------------------------
(* Derived values of a render *)

\* canEditImage for a character whose photo is never checked.
canEditImage_Always == TRUE

canEditImage == Truthy(character.photoUrl) /\ Truthy(Trim(character.photoUrl))

\* ResolveActive without the fallback to the first thread.
ResolveActive_NoFallback(ts, activeId) ==
    LET found == SelectSeq(ts, LAMBDA thread : thread.id = activeId) IN
    IF found # <<>> THEN found[1] ELSE NoThread

ResolveActive(ts, activeId) ==
    LET found == SelectSeq(ts, LAMBDA thread : thread.id = activeId) IN
    IF found # <<>> THEN found[1]
    ELSE IF ts # <<>> THEN ts[1]
    ELSE NoThread

activeThread == ResolveActive(threads, activeThreadId)

activeMessages == activeThread.messages

historyForCompletion ==
    LET texts == SelectSeq(activeMessages, LAMBDA message : message.type = "text")
        recent == SliceLast(texts, HistoryLimit)
    IN [i \in 1..Len(recent) |-> [role |-> recent[i].role, content |-> recent[i].content]]

\* An update whose updater drops the previous messages.
updateThreadMessages_Replace(ts, threadId, appended) ==
    [i \in 1..Len(ts) |->
        IF ts[i].id = threadId
        THEN [ts[i] EXCEPT !.messages = appended]
        ELSE ts[i]]

\* An update that does not look at the thread id.
updateThreadMessages_AnyThread(ts, threadId, appended) ==
    [i \in 1..Len(ts) |-> [ts[i] EXCEPT !.messages = ts[i].messages \o appended]]

updateThreadMessages(ts, threadId, appended) ==
    [i \in 1..Len(ts) |->
        IF ts[i].id = threadId
        THEN [ts[i] EXCEPT !.messages = ts[i].messages \o appended]
        ELSE ts[i]]

-----------------------------------------------------------------------------
(* Mount *)

Plain == [slug |-> Null, photoUrl |-> Null]
BlankPhoto == [slug |-> Null, photoUrl |-> <<" ">>]
Luna == [slug |-> <<"luna">>, photoUrl |-> <<"https://img/luna.webp">>]

\* The environments a session is mounted in: the character of the page, the
\* provider credential, and what the storage holds.
Mounts ==
    { [character |-> Plain, apiKey |-> TRUE, storage |-> NoItem],
      [character |-> Luna, apiKey |-> TRUE, storage |-> Stored(StaleId, SavedThreads)],
      [character |-> BlankPhoto, apiKey |-> FALSE, storage |-> Garbage],
      [character |-> Plain, apiKey |-> TRUE, storage |-> Stored(SavedId(3), SavedSingleThread)],
      [character |-> BlankPhoto, apiKey |-> FALSE, storage |-> Stored(0, SavedThreads)],
      [character |-> Luna, apiKey |-> TRUE, storage |-> Broken] }

NoTurn ==
    [id |-> 0, target |-> 0, image |-> FALSE, voice |-> FALSE, edit |-> FALSE,
     prompt |-> Null, imageUrl |-> Null, request |-> <<>>, stage |-> "none",
     reply |-> Null, imageBase64 |-> Null,
     resp |-> [ok |-> TRUE, status |-> 0, error |-> Null, reply |-> Null,
               audio |-> NoAudio, imageBase64 |-> Null, description |-> Null]]

Init ==
    /\ \E m \in Mounts :
          /\ character = m.character
          /\ apiKey = m.apiKey
          /\ storage = m.storage
    /\ threads = << createThread(<<"Session 1">>, 1) >>
    /\ activeThreadId = threads[1].id
    /\ isHydrated = FALSE
    /\ input = Null
    /\ isImageMode = FALSE
    /\ isVoiceMode = FALSE
    /\ isEditMode = FALSE
    /\ isProcessing = FALSE
    /\ pendingIndicator = "null"
    /\ errorMessage = Null
    /\ inflight = {}
    /\ nextThreadId = 2
    /\ turnCount = 0
    /\ completed = NoTurn

\* hydrate without the fallback to the first stored thread.
hydrate_NoFallback(stored, ts, activeId) ==
    IF stored.kind = "state" /\ Len(stored.threads) > 0
    THEN [threads |-> stored.threads, activeThreadId |-> stored.activeThreadId]
    ELSE [threads |-> ts, activeThreadId |-> activeId]

\* hydrate whose catch block resets the session.
hydrate_ResetsOnFailure(stored, ts, activeId) ==
    IF stored.kind = "state" /\ Len(stored.threads) > 0
    THEN [threads |-> stored.threads,
          activeThreadId |->
              IF stored.activeThreadId # 0
                 /\ stored.activeThreadId \in ThreadIdsOf(stored.threads)
              THEN stored.activeThreadId
              ELSE stored.threads[1].id]
    ELSE IF stored.kind \in {"garbage", "broken"}
         THEN [threads |-> <<>>, activeThreadId |-> 0]
         ELSE [threads |-> ts, activeThreadId |-> activeId]

\* The thread list and the active pointer the hydration effect leaves: those
\* of the stored state if it parses and holds a thread, else the current ones
\* (no item, an unparseable item, a getItem that throws).
hydrate(stored, ts, activeId) ==
    IF stored.kind = "state" /\ Len(stored.threads) > 0
    THEN [threads |-> stored.threads,
          activeThreadId |->
              IF stored.activeThreadId # 0
                 /\ stored.activeThreadId \in ThreadIdsOf(stored.threads)
              THEN stored.activeThreadId
              ELSE stored.threads[1].id]
    ELSE [threads |-> ts, activeThreadId |-> activeId]

\* The hydration effect, followed by the persist effect of the render that
\* setIsHydrated(true) causes.
Hydrate ==
    /\ ~isHydrated
    /\ LET result == hydrate(storage, threads, activeThreadId)
       IN /\ threads' = result.threads
          /\ activeThreadId' = result.activeThreadId
    /\ isHydrated' = TRUE
    /\ UNCHANGED <<character, apiKey, input, isImageMode, isVoiceMode, isEditMode,
                   isProcessing, pendingIndicator, errorMessage, inflight,
                   nextThreadId, turnCount>>
    /\ completed' = NoTurn
    /\ PersistEffect

-----------------------------------------------------------------------------
(* Composer input and mode controls *)

\* What the user types into the text input.
TypedInputs == { <<" ">>, <<" ", "a red fox", " ">> }

setInput(value) ==
    /\ input # value
    /\ input' = value
    /\ UNCHANGED <<character, apiKey, storage, threads, activeThreadId, isHydrated,
                   isImageMode, isVoiceMode, isEditMode, isProcessing,
                   pendingIndicator, errorMessage, inflight, nextThreadId,
                   turnCount>>
    /\ completed' = NoTurn

\* The mode flags of a render.
Mode(image, voice, edit) == [image |-> image, voice |-> voice, edit |-> edit]

mode == Mode(isImageMode, isVoiceMode, isEditMode)

\* setIsImageMode((prev) => { const next = !prev; if (next) {...} return next; })
toggleImageMode(m) ==
    LET next == ~m.image IN
    IF next THEN Mode(next, FALSE, FALSE) ELSE Mode(next, m.voice, m.edit)

\* toggleVoiceMode without setIsImageMode(false).
toggleVoiceMode_KeepsImage(m) ==
    LET next == ~m.voice IN
    IF next THEN Mode(m.image, next, FALSE) ELSE Mode(m.image, next, m.edit)

\* setIsVoiceMode((prev) => { const next = !prev; if (next) {...} return next; })
toggleVoiceMode(m) ==
    LET next == ~m.voice IN
    IF next THEN Mode(FALSE, next, FALSE) ELSE Mode(m.image, next, m.edit)

setMode(m) ==
    /\ isImageMode' = m.image
    /\ isVoiceMode' = m.voice
    /\ isEditMode' = m.edit

handleToggleImageMode ==
    /\ errorMessage' = Null
    /\ setMode(toggleImageMode(mode))
    /\ UNCHANGED <<character, apiKey, storage, threads, activeThreadId, isHydrated,
                   input, isProcessing, pendingIndicator, inflight, nextThreadId,
                   turnCount>>
    /\ completed' = NoTurn

handleToggleVoiceMode ==
    /\ errorMessage' = Null
    /\ setMode(toggleVoiceMode(mode))
    /\ UNCHANGED <<character, apiKey, storage, threads, activeThreadId, isHydrated,
                   input, isProcessing, pendingIndicator, inflight, nextThreadId,
                   turnCount>>
    /\ completed' = NoTurn

\* onChange of the edit-mode checkbox
toggleEditMode ==
    /\ isEditMode' = ~isEditMode
    /\ UNCHANGED <<character, apiKey, storage, threads, activeThreadId, isHydrated,
                   input, isImageMode, isVoiceMode, isProcessing, pendingIndicator,
                   errorMessage, inflight, nextThreadId, turnCount>>
    /\ completed' = NoTurn

\* The disabled attributes of the rendered controls.
inputEnabled == ~isProcessing

\* Mode buttons that stay enabled while a turn is processed.
modeToggleEnabled_Always == TRUE

modeToggleEnabled == ~isProcessing

\* An edit checkbox that is not disabled outside Image mode.
editCheckboxEnabled_AnyMode == ~(~canEditImage \/ isProcessing)

editCheckboxEnabled == ~(~canEditImage \/ isProcessing \/ ~isImageMode)
sendButtonEnabled == ~(isProcessing \/ ~Truthy(Trim(input)))
selectButtonEnabled(threadId) == ~(threadId = activeThread.id)
deleteButtonEnabled == ~(Len(threads) <= 1)

-----------------------------------------------------------------------------
(* Thread handlers *)

handleSelectThread(threadId) ==
    /\ activeThreadId' = threadId
    /\ errorMessage' = Null
    /\ pendingIndicator' = "null"
    /\ UNCHANGED threads
    /\ UNCHANGED <<character, apiKey, isHydrated, input, isImageMode, isVoiceMode,
                   isEditMode, isProcessing, inflight, nextThreadId, turnCount>>
    /\ completed' = NoTurn
    /\ PersistEffect

handleCreateThread ==
    /\ nextThreadId <= MaxThreadIds
    /\ LET newThread == createThread(<<"Chat ", ToString(Len(threads) + 1)>>, nextThreadId)
       IN /\ threads' = Append(threads, newThread)
          /\ activeThreadId' = newThread.id
    /\ nextThreadId' = nextThreadId + 1
    /\ input' = Null
    /\ errorMessage' = Null
    /\ pendingIndicator' = "null"
    /\ UNCHANGED <<character, apiKey, isHydrated, isImageMode, isVoiceMode,
                   isEditMode, isProcessing, inflight, turnCount>>
    /\ completed' = NoTurn
    /\ PersistEffect

\* deleteThread without the guard on the last remaining thread.
deleteThread_NoLastThreadGuard(prev, activeId, threadId) ==
    LET filtered == SelectSeq(prev, LAMBDA thread : thread.id # threadId) IN
    [threads |-> filtered,
     activeThreadId |->
         IF threadId = activeId /\ filtered # <<>>
         THEN filtered[Len(filtered)].id
         ELSE activeId]

\* The thread list and the active pointer handleDeleteThread leaves.
deleteThread(prev, activeId, threadId) ==
    LET filtered == SelectSeq(prev, LAMBDA thread : thread.id # threadId) IN
    IF Len(prev) <= 1
    THEN [threads |-> prev, activeThreadId |-> activeId]
    ELSE [threads |-> filtered,
          activeThreadId |->
              IF threadId = activeId /\ filtered # <<>>
              THEN filtered[Len(filtered)].id
              ELSE activeId]

handleDeleteThread(threadId) ==
    /\ LET result == deleteThread(threads, activeThreadId, threadId)
       IN /\ threads' = result.threads
          /\ activeThreadId' = result.activeThreadId
    /\ UNCHANGED <<character, apiKey, isHydrated, input, isImageMode, isVoiceMode,
                   isEditMode, isProcessing, pendingIndicator, errorMessage,
                   inflight, nextThreadId, turnCount>>
    /\ completed' = NoTurn
    /\ PersistEffect

-----------------------------------------------------------------------------
(* Request orchestration: handleSend and the two route handlers *)

\* randomId() of the n-th message a turn creates.
MsgId(turn, n) == 3 * (turn - 1) + n

DefaultSystemMessage == [role |-> "system", content |-> <<"You are a helpful assistant.">>]

\* JSON body of a route's response, with its status.
Response(status, error, reply, audio, imageBase64, description) ==
    [ok |-> status \in 200..299, status |-> status, error |-> error, reply |-> reply,
     audio |-> audio, imageBase64 |-> imageBase64, description |-> description]

ErrorResponse(status, error) == Response(status, error, Null, NoAudio, Null, Null)

\* The chat route without the check of body.messages.
ChatRouteEntry_NoValidation(t) ==
    [t EXCEPT !.stage = "chat", !.request = SliceLast(t.request, HistoryLimit)]

\* The chat route up to its first await: validation and normalisation.
ChatRouteEntry(t) ==
    IF Len(t.request) = 0
    THEN [t EXCEPT !.stage = "response",
                   !.resp = ErrorResponse(400, <<"messages array is required">>)]
    ELSE [t EXCEPT !.stage = "chat",
                   !.request = SliceLast(t.request, HistoryLimit)]

\* The image route up to its first await.
ImageRouteEntry(t) ==
    IF ~Truthy(t.prompt)
    THEN [t EXCEPT !.stage = "response",
                   !.resp = ErrorResponse(400, <<"prompt is required">>)]
    ELSE IF t.edit
         THEN IF ~Truthy(t.imageUrl)
              THEN [t EXCEPT !.stage = "response",
                             !.resp = ErrorResponse(400, <<"imageUrl is required for edit mode">>)]
              ELSE [t EXCEPT !.stage = "edit"]
         ELSE [t EXCEPT !.stage = "generate"]

\* if (!input.trim() || isProcessing) return; if (!activeThread) return;
sendAccepted == ~(~Truthy(Trim(input)) \/ isProcessing) /\ activeThread # NoThread

\* beginTurn without setIsProcessing(true).
beginTurn_NotProcessing(currentImageMode) ==
    /\ input' = Null
    /\ isProcessing' = isProcessing
    /\ errorMessage' = Null
    /\ pendingIndicator' = IF currentImageMode THEN "image" ELSE "text"

\* setInput(""); setIsProcessing(true); setErrorMessage(null); ...
\* setPendingIndicator(currentImageMode ? "image" : "text")
beginTurn(currentImageMode) ==
    /\ input' = Null
    /\ isProcessing' = TRUE
    /\ errorMessage' = Null
    /\ pendingIndicator' = IF currentImageMode THEN "image" ELSE "text"

\* handleSend up to its first await (the fetch of a route).
handleSend ==
    /\ sendAccepted => turnCount < MaxTurns
    /\ IF ~sendAccepted
       THEN UNCHANGED <<threads, input, isProcessing, pendingIndicator,
                       errorMessage, inflight, turnCount>>
       ELSE LET turn == turnCount + 1
                trimmedInput == Trim(input)
                targetThreadId == activeThread.id
                userMessage == TextMessage(MsgId(turn, 1), "user", trimmedInput)
                currentImageMode == isImageMode
                currentVoiceMode == isVoiceMode
                currentEditMode == isEditMode /\ canEditImage
                history == historyForCompletion
                            \o << [role |-> userMessage.role, content |-> userMessage.content] >>
                requestMessages ==
                    IF ~Truthy(character.slug) THEN <<DefaultSystemMessage>> \o history
                    ELSE history
                call == [NoTurn EXCEPT
                            !.id = turn, !.target = targetThreadId,
                            !.image = currentImageMode, !.prompt = trimmedInput]
                \* body of the fetch to /api/venice/image
                imageCall == [call EXCEPT
                                !.edit = currentEditMode,
                                !.imageUrl = IF currentEditMode THEN character.photoUrl ELSE Null]
                \* body of the fetch to /api/venice/chat
                chatCall == [call EXCEPT
                                !.request = requestMessages, !.voice = currentVoiceMode]
            IN /\ beginTurn(currentImageMode)
               /\ threads' = updateThreadMessages(threads, targetThreadId, <<userMessage>>)
               /\ inflight' = inflight \cup
                     { IF currentImageMode THEN ImageRouteEntry(imageCall)
                       ELSE ChatRouteEntry(chatCall) }
               /\ turnCount' = turn
    /\ UNCHANGED <<character, apiKey, activeThreadId, isHydrated, isImageMode,
                   isVoiceMode, isEditMode, nextThreadId>>
    /\ completed' = NoTurn
    /\ PersistEffect

Replace(t, u) == (inflight \ {t}) \cup {u}

ServerStep(t, u) ==
    /\ inflight' = Replace(t, u)
    /\ UNCHANGED <<character, apiKey, storage, threads, activeThreadId, isHydrated,
                   input, isImageMode, isVoiceMode, isEditMode, isProcessing,
                   pendingIndicator, errorMessage, nextThreadId, turnCount>>
    /\ completed' = NoTurn

InternalError == 500

\* The chat route going on to speech synthesis whatever the chat call did.
ChatRouteCompletion_SpeechAnyway(t, r) ==
    /\ t.stage = "chat"
    /\ LET reply == createChatCompletion(r) IN
       ServerStep(t,
           IF t.voice
           THEN [t EXCEPT !.stage = "speech",
                          !.reply = IF reply.throws THEN Null ELSE reply.value]
           ELSE IF reply.throws
                THEN [t EXCEPT !.stage = "response",
                               !.resp = ErrorResponse(InternalError, reply.message)]
                ELSE [t EXCEPT !.stage = "response", !.reply = reply.value,
                               !.resp = Response(200, Null, reply.value, NoAudio, Null, Null)])

\* chat route: const reply = await createChatCompletion(...)
ChatRouteCompletion(t, r) ==
    /\ t.stage = "chat"
    /\ LET reply == createChatCompletion(r) IN
       ServerStep(t,
           IF reply.throws
           THEN [t EXCEPT !.stage = "response",
                          !.resp = ErrorResponse(InternalError, reply.message)]
           ELSE IF t.voice
                THEN [t EXCEPT !.stage = "speech", !.reply = reply.value]
                ELSE [t EXCEPT !.stage = "response", !.reply = reply.value,
                               !.resp = Response(200, Null, reply.value, NoAudio, Null, Null)])

\* The chat route asking for the completion again when speech synthesis fails.
ChatRouteSpeech_RetriesTurn(t, r) ==
    /\ t.stage = "speech"
    /\ LET audio == synthesizeSpeech(r) IN
       ServerStep(t,
           IF audio.throws
           THEN [t EXCEPT !.stage = "chat", !.reply = Null]
           ELSE [t EXCEPT !.stage = "response",
                          !.resp = Response(200, Null, t.reply, audio.value, Null, Null)])

\* chat route: const audio = await synthesizeSpeech({ text: reply })
ChatRouteSpeech(t, r) ==
    /\ t.stage = "speech"
    /\ LET audio == synthesizeSpeech(r) IN
       ServerStep(t,
           IF audio.throws
           THEN [t EXCEPT !.stage = "response",
                          !.resp = ErrorResponse(InternalError, audio.message)]
           ELSE [t EXCEPT !.stage = "response",
                          !.resp = Response(200, Null, t.reply, audio.value, Null, Null)])

\* image route: imageBase64 = await editImage(...) / generateImage(...)
ImageRouteImage(t, r) ==
    /\ t.stage \in {"generate", "edit"}
    /\ LET image == IF t.stage = "edit" THEN editImage(r) ELSE generateImage(r) IN
       ServerStep(t,
           IF image.throws
           THEN [t EXCEPT !.stage = "response",
                          !.resp = ErrorResponse(InternalError, image.message)]
           ELSE [t EXCEPT !.stage = "describe", !.imageBase64 = image.value])

\* The describe step without its own try/catch: a failure reaches the
\* route's catch and is answered with status 500.
ImageRouteDescribe_Fatal(t, r) ==
    /\ t.stage = "describe"
    /\ LET described == describeImage(r) IN
       ServerStep(t,
           IF described.throws
           THEN [t EXCEPT !.stage = "response",
                          !.resp = ErrorResponse(InternalError, described.message)]
           ELSE [t EXCEPT !.stage = "response",
                          !.resp = Response(200, Null, Null, NoAudio, t.imageBase64,
                                            described.value)])

\* image route: try { description = await describeImage(...) } catch { warn }
ImageRouteDescribe(t, r) ==
    /\ t.stage = "describe"
    /\ LET described == describeImage(r)
           description == IF described.throws THEN Null ELSE described.value
       IN ServerStep(t,
              [t EXCEPT !.stage = "response",
                        !.resp = Response(200, Null, Null, NoAudio, t.imageBase64, description)])


\* A try block that appends nothing.
TryBlock_NoAppend(t) == [thrown |-> FALSE, appended |-> <<>>, message |-> Null]

\* What the try block of handleSend does once the route has answered: the
\* messages it appends, or the Error it throws.
TryBlock(t) ==
    LET data == t.resp IN
    IF t.image
    THEN IF ~data.ok
         THEN [thrown |-> TRUE, appended |-> <<>>,
               message |-> OrElse(data.error, <<"Image generation failed">>)]
         ELSE [thrown |-> FALSE,
               appended |->
                   << ImageMessage(MsgId(t.id, 2), data.imageBase64, data.description) >>
                   \o (IF Truthy(data.description)
                       THEN << TextMessage(MsgId(t.id, 3), "assistant",
                                           <<"Here is ">> \o data.description) >>
                       ELSE <<>>),
               message |-> Null]
    ELSE IF ~data.ok
         THEN [thrown |-> TRUE, appended |-> <<>>,
               message |-> OrElse(data.error, <<"Unable to fetch response from Venice.">>)]
         ELSE [thrown |-> FALSE,
               appended |->
                   << TextMessage(MsgId(t.id, 2), "assistant", data.reply) >>
                   \o (IF t.voice /\ Truthy(data.audio.base64) /\ Truthy(data.audio.mimeType)
                       THEN << AudioMessage(MsgId(t.id, 3), data.audio.base64,
                                            data.audio.mimeType, data.reply) >>
                       ELSE <<>>),
               message |-> Null]

\* A catch block that only sets the banner.
CatchBlock_NoMessage(t, message) == <<>>

\* The catch block: one synthetic assistant message, and the error banner.
CatchBlock(t, message) ==
    << TextMessage(MsgId(t.id, 2), "assistant", <<"Error: ">> \o message) >>

\* finallyBlock without the reset of the edit flag.
finallyBlock_KeepsEditFlag ==
    /\ pendingIndicator' = "null"
    /\ isProcessing' = FALSE
    /\ setMode(Mode(FALSE, FALSE, isEditMode))

\* finallyBlock without setIsProcessing(false).
finallyBlock_StaysProcessing ==
    /\ pendingIndicator' = "null"
    /\ isProcessing' = isProcessing
    /\ setMode(Mode(FALSE, FALSE, FALSE))

finallyBlock ==
    /\ pendingIndicator' = "null"
    /\ isProcessing' = FALSE
    /\ setMode(Mode(FALSE, FALSE, FALSE))

\* handleSend from the route's response to its end: try, catch, finally.
handleSendResume(t) ==
    /\ t.stage = "response"
    /\ LET outcome == TryBlock(t) IN
       /\ threads' = updateThreadMessages(threads, t.target,
                        IF outcome.thrown THEN CatchBlock(t, outcome.message)
                        ELSE outcome.appended)
       /\ errorMessage' = IF outcome.thrown THEN outcome.message ELSE errorMessage
    /\ finallyBlock
    /\ inflight' = inflight \ {t}
    /\ completed' = t
    /\ UNCHANGED <<character, apiKey, activeThreadId, isHydrated, input,
                   nextThreadId, turnCount>>
    /\ PersistEffect

-----------------------------------------------------------------------------
(* The component as the browser drives it: a handler runs when the control *)
(* it is attached to is rendered and not disabled.                         *)

ChatPayloads == { Null, <<"hi there">> }
ImagePayloads == { Null, <<"B64IMG">> }
DescribePayloads == { Null, <<"A red fox in a forest">> }
SpeechPayloads == { Null, <<"B64AUDIO">> }

Provider ==
    \E t \in inflight :
        \/ \E r \in HttpResponses(ChatPayloads) : ChatRouteCompletion(t, r)
        \/ \E r \in HttpResponses(SpeechPayloads) : ChatRouteSpeech(t, r)
        \/ \E r \in HttpResponses(ImagePayloads) : ImageRouteImage(t, r)
        \/ \E r \in HttpResponses(DescribePayloads) : ImageRouteDescribe(t, r)

Resume == \E t \in inflight : handleSendResume(t)

TypeInput == isHydrated /\ inputEnabled /\ \E value \in TypedInputs : setInput(value)

ClickImageToggle == isHydrated /\ modeToggleEnabled /\ handleToggleImageMode

ClickVoiceToggle == isHydrated /\ modeToggleEnabled /\ handleToggleVoiceMode

ClickEditCheckbox == isHydrated /\ editCheckboxEnabled /\ toggleEditMode

\* The send button, or Enter in the text input.
Submit == isHydrated /\ (sendButtonEnabled \/ inputEnabled) /\ handleSend

ClickThread ==
    /\ isHydrated
    /\ \E threadId \in ThreadIdsOf(threads) :
          selectButtonEnabled(threadId) /\ handleSelectThread(threadId)

ClickNewThread == isHydrated /\ handleCreateThread

ClickDeleteThread ==
    /\ isHydrated
    /\ deleteButtonEnabled
    /\ \E threadId \in ThreadIdsOf(threads) : handleDeleteThread(threadId)

Next ==
    \/ Hydrate
    \/ TypeInput
    \/ ClickImageToggle
    \/ ClickVoiceToggle
    \/ ClickEditCheckbox
    \/ Submit
    \/ ClickThread
    \/ ClickNewThread
    \/ ClickDeleteThread
    \/ Provider
    \/ Resume

Spec == Init /\ [][Next]_vars

\* Every fetch of a provider settles, and the continuation of an await whose
\* promise has settled is run.
SpecLive == Spec /\ WF_vars(Provider) /\ WF_vars(Resume)

-----------------------------------------------------------------------------
(* The thread handlers as operations: handleSelectThread and              *)
(* handleDeleteThread called with any thread id, not only with the id of   *)
(* a thread button that is rendered and enabled.                           *)

\* Thread ids a caller of a handler can name: every id the session can hand
\* out, the ids of the restored threads, and an id no thread has.
NameableThreadIds == (1..MaxThreadIds) \cup { SavedId(1), SavedId(2), SavedId(3), StaleId }

CallSelectThread ==
    isHydrated /\ \E threadId \in NameableThreadIds : handleSelectThread(threadId)

CallDeleteThread ==
    isHydrated /\ \E threadId \in NameableThreadIds : handleDeleteThread(threadId)

NextHandlers ==
    \/ Next
    \/ CallSelectThread
    \/ CallDeleteThread

SpecHandlers == Init /\ [][NextHandlers]_vars

-----------------------------------------------------------------------------
(* The two routes as HTTP endpoints: POST requests with any body, not     *)
(* only the bodies handleSend builds.                                      *)

\* body.messages of a request: missing or empty, or one user message.
PostedMessages == { <<>>, << [role |-> "user", content |-> <<"hello">>] >> }

\* body.prompt and body.imageUrl of a request: missing or empty, or a text.
PostedPrompts == { Null, <<"a fox">> }
PostedImageUrls == { Null, <<"https://img/posted.png">> }

Post(t) ==
    /\ inflight = {}
    /\ inflight' = {t}
    /\ completed' = NoTurn
    /\ UNCHANGED <<character, apiKey, storage, threads, activeThreadId, isHydrated,
                   input, isImageMode, isVoiceMode, isEditMode, isProcessing,
                   pendingIndicator, errorMessage, nextThreadId, turnCount>>

\* POST /api/venice/chat
PostChat ==
    \E messages \in PostedMessages, voice \in BOOLEAN :
        Post(ChatRouteEntry([NoTurn EXCEPT !.id = 1, !.request = messages,
                                           !.voice = voice]))

\* POST /api/venice/image
PostImage ==
    \E prompt \in PostedPrompts, edit \in BOOLEAN, imageUrl \in PostedImageUrls :
        Post(ImageRouteEntry([NoTurn EXCEPT !.id = 1, !.image = TRUE, !.prompt = prompt,
                                            !.edit = edit, !.imageUrl = imageUrl]))

\* return NextResponse.json(...)
Respond ==
    \E t \in inflight :
        /\ t.stage = "response"
        /\ inflight' = {}
        /\ completed' = t
        /\ UNCHANGED <<character, apiKey, storage, threads, activeThreadId, isHydrated,
                       input, isImageMode, isVoiceMode, isEditMode, isProcessing,
                       pendingIndicator, errorMessage, nextThreadId, turnCount>>

NextRoutes ==
    \/ PostChat
    \/ PostImage
    \/ Provider
    \/ Respond

SpecRoutes == Init /\ [][NextRoutes]_vars

-----------------------------------------------------------------------------
(* Vocabulary of the properties *)

\* The most recently created thread of a non-empty thread list.
MostRecent(ts) ==
    CHOOSE thread \in { ts[i] : i \in 1..Len(ts) } :
        \A j \in 1..Len(ts) : ts[j].createdAt <= thread.createdAt

TargetExists(t) == t.target \in ThreadIdsOf(threads)

TargetMessages(t) ==
    LET found == SelectSeq(threads, LAMBDA thread : thread.id = t.target) IN
    IF found = <<>> THEN <<>> ELSE found[1].messages

\* The log of the thread with the given id in a thread list.
MessagesOf(ts, threadId) ==
    LET found == SelectSeq(ts, LAMBDA thread : thread.id = threadId) IN
    IF found = <<>> THEN <<>> ELSE found[1].messages

\* The positions of the Text messages of a log.
TextPositions(msgs) == { i \in 1..Len(msgs) : msgs[i].type = "text" }

\* The Text messages of a log, in the order of the log, each as a
\* {role, content} entry.
RECURSIVE TextEntries(_)
TextEntries(msgs) ==
    IF msgs = <<>> THEN <<>>
    ELSE (IF Head(msgs).type = "text"
          THEN << [role |-> Head(msgs).role, content |-> Head(msgs).content] >>
          ELSE <<>>) \o TextEntries(Tail(msgs))

\* The History Window as the specification words it: the most recent
\* min(limit, number of Text messages) Text messages of the log, in the order
\* of the log.
TextWindow(msgs, limit) ==
    LET entries == TextEntries(msgs)
        n == Len(entries)
        k == IF n < limit THEN n ELSE limit
    IN SubSeq(entries, n - k + 1, n)

IsPrefix(a, b) == Len(a) <= Len(b) /\ SubSeq(b, 1, Len(a)) = a

\* The target thread's log from the user message of turn t on: what the turn
\* has appended.
TurnMessages(t) ==
    LET msgs == TargetMessages(t)
        at == { i \in 1..Len(msgs) : msgs[i].id = MsgId(t.id, 1) }
    IN IF at = {} THEN <<>> ELSE SubSeq(msgs, CHOOSE i \in at : TRUE, Len(msgs))

\* Messages without their ids.
Contents(msgs) == [i \in 1..Len(msgs) |-> [msgs[i] EXCEPT !.id = 0]]

UserText(t) == TextMessage(0, "user", t.prompt)
AssistantText(content) == TextMessage(0, "assistant", content)

HasType(msgs, type) == \E i \in 1..Len(msgs) : msgs[i].type = type

JustCompleted == completed # NoTurn

\* The chat call of the turn returned a reply and speech synthesis then failed.
VoiceFailed(t) == ~t.image /\ t.voice /\ Truthy(t.reply) /\ ~t.resp.ok

\* The primary call of the turn (chat completion, image generate/edit) failed.
PrimaryFailed(t) ==
    /\ ~t.resp.ok
    /\ IF t.image THEN ~Truthy(t.imageBase64) ELSE ~Truthy(t.reply)

\* A Text-mode turn without voice whose chat call returned a reply.
PlainSucceeded(t) == ~t.image /\ ~t.voice /\ t.resp.ok /\ Truthy(t.reply)

\* A Text+Voice turn whose chat call returned a reply and whose speech
\* synthesis returned audio bytes.
VoiceSucceeded(t) ==
    ~t.image /\ t.voice /\ t.resp.ok /\ Truthy(t.reply) /\ Truthy(t.resp.audio.base64)

\* A Text+Voice turn whose chat call returned a reply and whose speech
\* request was answered 2xx with a zero-byte payload.
EmptyAudio(t) ==
    ~t.image /\ t.voice /\ t.resp.ok /\ Truthy(t.reply) /\ ~Truthy(t.resp.audio.base64)

\* Image generate/edit returned bytes and the description call returned a text.
Described(t) == t.image /\ t.resp.ok /\ Truthy(t.imageBase64) /\ Truthy(t.resp.description)

\* Image generate/edit returned bytes and the description call then failed.
DescribeFailed(t) == t.image /\ Truthy(t.imageBase64) /\ ~Truthy(t.resp.description)

-----------------------------------------------------------------------------
(* C1 *)

\* C1 (as claimed): when a Text+Voice turn completes whose chat call returned
\* reply R and whose speech synthesis failed with message M, the error state is
\* M and the target thread ends with the user message, the assistant message R
\* and the assistant message 'Error: M', with no Audio message.
C1_VoiceFailureKeepsReply ==
    (JustCompleted /\ VoiceFailed(completed) /\ TargetExists(completed)) =>
        /\ errorMessage = completed.resp.error
        /\ Contents(TurnMessages(completed)) =
              << UserText(completed),
                 AssistantText(completed.reply),
                 AssistantText(<<"Error: ">> \o completed.resp.error) >>
        /\ ~HasType(TurnMessages(completed), "audio")

\* A Text+Voice turn completed whose reply was produced and whose speech
\* synthesis was refused by the provider.
C1_VoiceFailureCase ==
    /\ JustCompleted /\ VoiceFailed(completed) /\ TargetExists(completed)
    /\ completed.reply = <<"hi there">>
    /\ completed.resp.error = <<"quota exceeded">>

-----------------------------------------------------------------------------
(* C2 *)

\* C2: in every reachable state the session has at least one thread, and in
\* every state with exactly one thread handleDeleteThread, whatever id it is
\* given, leaves the thread list and the active pointer as they are.
C2_AtLeastOneThread ==
    /\ Len(threads) >= 1
    /\ Len(threads) = 1 =>
          \A threadId \in NameableThreadIds :
              deleteThread(threads, activeThreadId, threadId)
                  = [threads |-> threads, activeThreadId |-> activeThreadId]

\* One thread is left after a thread was created and the first one deleted.
C2_LastThreadLeft ==
    /\ isHydrated
    /\ Len(threads) = 1
    /\ nextThreadId > 2
    /\ threads[1].id = 2

-----------------------------------------------------------------------------
(* C3 *)

\* C3: in every reachable state the resolved active thread is one of the
\* threads, and for every id that matches no thread the active thread
\* resolved from it is the first thread of the list.
C3_ActiveThreadResolves ==
    /\ \E i \in 1..Len(threads) : threads[i] = activeThread
    /\ \A staleId \in NameableThreadIds \ ThreadIdsOf(threads) :
          ResolveActive(threads, staleId) = threads[1]

\* Several threads, the active one is not the first, and an id of a deleted
\* thread exists that would resolve to the first.
C3_SeveralThreads ==
    /\ isHydrated
    /\ Len(threads) >= 2
    /\ activeThread # threads[1]
    /\ \E staleId \in NameableThreadIds \ ThreadIdsOf(threads) : staleId < nextThreadId

-----------------------------------------------------------------------------
(* C4 *)

\* C4: in the state a submit completes in, whatever its mode and outcome, the
\* image, voice and edit flags are all false.
C4_ModeResetOnCompletion ==
    JustCompleted => mode = Mode(FALSE, FALSE, FALSE)

\* A turn submitted in Image mode with the edit flag set completed with a
\* failure.
C4_EditTurnCompleted ==
    JustCompleted /\ completed.image /\ completed.edit /\ ~completed.resp.ok

-----------------------------------------------------------------------------
(* C5 *)

\* C5: Image mode and Voice mode are never active together; from every
\* reachable state, toggling Image on leaves Voice off and the edit flag
\* false, toggling Voice on leaves Image off and the edit flag false, and
\* toggling the active mode off leaves neither Image nor Voice active.
C5_ModesExclusive ==
    /\ ~(isImageMode /\ isVoiceMode)
    /\ ~isImageMode => toggleImageMode(mode) = Mode(TRUE, FALSE, FALSE)
    /\ ~isVoiceMode => toggleVoiceMode(mode) = Mode(FALSE, TRUE, FALSE)
    /\ isImageMode =>
          LET m == toggleImageMode(mode) IN ~m.image /\ ~m.voice
    /\ isVoiceMode =>
          LET m == toggleVoiceMode(mode) IN ~m.image /\ ~m.voice

\* Voice mode is on with the edit flag false: reached by toggling Voice on.
C5_VoiceOn == isVoiceMode /\ ~isImageMode /\ ~isEditMode /\ canEditImage

-----------------------------------------------------------------------------
(* C6 *)

\* C6 (as claimed): in every reachable state the edit flag is set only while
\* Image mode is active.
C6_EditImpliesImage == isEditMode => isImageMode

\* C6 (amended): the edit flag is never set while Voice mode is active and
\* only for a character with a reference image; it becomes true only in a
\* step taken in Image mode; a step that leaves Image mode for Voice mode or
\* by completing a turn leaves it false; toggling Image off to Text leaves it
\* as it was.
C6_EditFlagAmended ==
    /\ [](isEditMode => ~isVoiceMode /\ canEditImage)
    /\ [][(~isEditMode /\ isEditMode') => (isImageMode /\ isImageMode')]_vars
    /\ [][(isImageMode /\ ~isImageMode' /\ (isVoiceMode' \/ JustCompleted'))
             => ~isEditMode']_vars
    /\ [][(isImageMode /\ ~isImageMode' /\ ~isVoiceMode' /\ ~JustCompleted')
             => isEditMode' = isEditMode]_vars

\* The edit flag is still set after Image mode was toggled off.
C6_StaleEditFlag == isEditMode /\ ~isImageMode /\ ~isVoiceMode /\ ~isProcessing

-----------------------------------------------------------------------------
(* C7 *)

\* C7: at most one turn is in flight, and while one is in flight the session
\* is processing, the send button and the text input are disabled, and
\* handleSend takes its early return, which changes nothing.
C7_OneTurnInFlight ==
    /\ Cardinality(inflight) <= 1
    /\ inflight # {} =>
          /\ isProcessing
          /\ ~sendAccepted
          /\ ~sendButtonEnabled
          /\ ~inputEnabled
    /\ isProcessing => inflight # {}

\* A Text+Voice turn is pending at its second provider call.
C7_TurnPending == \E t \in inflight : t.stage = "speech" /\ isProcessing

-----------------------------------------------------------------------------
(* C8 *)

\* C8: in every step taken while a turn is pending before and after it, the
\* image, voice and edit flags keep their values.
C8_ModeFrozenWhilePending ==
    [][(inflight # {} /\ inflight' # {})
          => UNCHANGED <<isImageMode, isVoiceMode, isEditMode>>]_vars

\* An Image-mode edit turn has its response in flight, the flags still set.
C8_PendingWithModeSet ==
    \E t \in inflight :
        t.stage = "response" /\ t.edit /\ isImageMode /\ isEditMode /\ ~modeToggleEnabled

-----------------------------------------------------------------------------
(* C9 *)

\* C9: when a turn completes whose primary call failed with message M, the
\* error state is M and, if the target thread still exists, the turn has
\* appended to it exactly the user message followed by the assistant Text
\* message 'Error: M' (no Image or Audio message).
C9_PrimaryFailure ==
    (JustCompleted /\ PrimaryFailed(completed)) =>
        /\ errorMessage = completed.resp.error
        /\ Truthy(completed.resp.error)
        /\ TargetExists(completed) =>
              Contents(TurnMessages(completed)) =
                  << UserText(completed),
                     AssistantText(<<"Error: ">> \o completed.resp.error) >>

\* An Image-mode turn completed after generation returned no image.
C9_ImageFailed ==
    /\ JustCompleted /\ PrimaryFailed(completed) /\ TargetExists(completed)
    /\ completed.image
    /\ completed.resp.error = NoImageGenerateMsg

-----------------------------------------------------------------------------
(* C10 *)

\* C10: when an Image-mode turn completes whose generate/edit call returned
\* bytes B and whose description call failed, the error state is empty, the
\* processing flag and indicator are cleared and, if the target thread still
\* exists, the turn has appended to it exactly the user message followed by
\* one Image message with imageData B and no description.
C10_DescribeFailureSwallowed ==
    (JustCompleted /\ DescribeFailed(completed)) =>
        /\ errorMessage = Null
        /\ pendingIndicator = "null"
        /\ ~isProcessing
        /\ TargetExists(completed) =>
              Contents(TurnMessages(completed)) =
                  << UserText(completed),
                     ImageMessage(0, completed.imageBase64, Null) >>

\* An edit turn completed with an image whose description call failed.
C10_DescribeFailedCase ==
    /\ JustCompleted /\ DescribeFailed(completed) /\ TargetExists(completed)
    /\ completed.edit
    /\ completed.imageBase64 = <<"B64IMG">>

-----------------------------------------------------------------------------
(* C11 *)

\* C11: when an Image-mode turn completes whose generate/edit call returned
\* bytes B and whose description call returned D, the turn has appended to the
\* target thread (if it still exists) exactly the user message, the Image
\* message {B, D} and the assistant Text message 'Here is D'; and in no state
\* does any thread show an Image message with a description that is not
\* immediately followed by its 'Here is' message (the two appear together).
C11_ImageThenCaption ==
    /\ (JustCompleted /\ Described(completed) /\ TargetExists(completed)) =>
          LET gained == TurnMessages(completed) IN
          /\ Len(gained) = 3
          /\ Contents(<<gained[1]>>) = << UserText(completed) >>
          /\ gained[2].type = "image" /\ gained[2].role = "assistant"
          /\ gained[2].imageBase64 = completed.imageBase64
          /\ gained[2].description = completed.resp.description
          /\ Contents(<<gained[3]>>) =
                << AssistantText(<<"Here is ">> \o completed.resp.description) >>
    /\ \A k \in 1..Len(threads) :
          LET msgs == threads[k].messages IN
          \A i \in 1..Len(msgs) :
              (msgs[i].type = "image" /\ Truthy(msgs[i].description)) =>
                  /\ i < Len(msgs)
                  /\ Contents(<<msgs[i + 1]>>) =
                        << AssistantText(<<"Here is ">> \o msgs[i].description) >>

\* A generate turn completed with image and description.
C11_DescribedCase ==
    /\ JustCompleted /\ Described(completed) /\ TargetExists(completed)
    /\ ~completed.edit
    /\ completed.resp.description = <<"A red fox in a forest">>

-----------------------------------------------------------------------------
(* C12 *)

\* C12: a successful Text-mode turn without voice on a thread with log L
\* leaves L followed by the user Text message and the assistant Text message
\* with the reply: the accepted submit appends the user message to the active
\* thread's log, no step taken while the turn is pending changes the log of a
\* thread that stays, and the completion appends the reply and nothing else.
C12_PlainChatAppendsTwo ==
    [][ /\ (turnCount' # turnCount /\ ~isImageMode /\ ~isVoiceMode) =>
             Contents(MessagesOf(threads', activeThread.id)) =
                 Contents(activeMessages) \o << TextMessage(0, "user", Trim(input)) >>
        /\ (isProcessing /\ isProcessing') =>
             \A id \in ThreadIdsOf(threads) \cap ThreadIdsOf(threads') :
                 MessagesOf(threads', id) = MessagesOf(threads, id)
        /\ (completed' # NoTurn /\ PlainSucceeded(completed')
              /\ completed'.target \in ThreadIdsOf(threads')) =>
             LET before == MessagesOf(threads, completed'.target)
                 after == MessagesOf(threads', completed'.target)
             IN /\ before # <<>>
                /\ before[Len(before)].id = MsgId(completed'.id, 1)
                /\ Contents(<<before[Len(before)]>>) = << UserText(completed') >>
                /\ Contents(after) =
                      Contents(before) \o << AssistantText(completed'.resp.reply) >>
      ]_vars

\* A plain chat turn completed on a thread that was empty: two messages.
C12_PlainChatOnEmptyThread ==
    /\ JustCompleted /\ PlainSucceeded(completed) /\ TargetExists(completed)
    /\ Contents(TargetMessages(completed)) =
          << TextMessage(0, "user", <<"a red fox">>),
             TextMessage(0, "assistant", <<"hi there">>) >>

-----------------------------------------------------------------------------
(* C13 *)

\* C13: when a Text+Voice turn completes whose chat call returned reply R and
\* whose speech synthesis returned audio, the turn has appended to the target
\* thread (if it still exists), in order, the user Text message, the assistant
\* Text message R and one Audio message with transcript R; and in no state
\* does any thread hold an Audio message that does not directly follow the
\* assistant Text message whose content is its transcript.
C13_ReplyThenAudio ==
    /\ (JustCompleted /\ VoiceSucceeded(completed) /\ TargetExists(completed)) =>
          LET gained == TurnMessages(completed) IN
          /\ Len(gained) = 3
          /\ Contents(<<gained[1], gained[2]>>) =
                << UserText(completed), AssistantText(completed.reply) >>
          /\ gained[3].type = "audio" /\ gained[3].role = "assistant"
          /\ gained[3].text = completed.reply
          /\ gained[3].audioBase64 = completed.resp.audio.base64
          /\ gained[3].mimeType = completed.resp.audio.mimeType
    /\ \A k \in 1..Len(threads) :
          LET msgs == threads[k].messages IN
          \A i \in 1..Len(msgs) :
              msgs[i].type = "audio" =>
                  /\ i > 1
                  /\ Contents(<<msgs[i - 1]>>) = << AssistantText(msgs[i].text) >>

\* A Text+Voice turn completed with reply and audio.
C13_VoiceTurnCompleted ==
    /\ JustCompleted /\ VoiceSucceeded(completed) /\ TargetExists(completed)
    /\ completed.reply = <<"hi there">>
    /\ HasType(TurnMessages(completed), "audio")

-----------------------------------------------------------------------------
(* C14 *)

\* C14 (as claimed): when a Text+Voice turn completes whose speech request was
\* answered successfully with an empty payload, the turn is reported as failed:
\* the error state is set and the turn's last message is an 'Error: M' message.
C14_EmptyAudioFailsTurn ==
    (JustCompleted /\ EmptyAudio(completed) /\ TargetExists(completed)) =>
        LET gained == TurnMessages(completed) IN
        /\ Truthy(errorMessage)
        /\ gained # <<>>
        /\ Contents(<<gained[Len(gained)]>>) =
              << AssistantText(<<"Error: ">> \o errorMessage) >>

\* A Text+Voice turn completed after a zero-byte speech answer.
C14_EmptyAudioCase ==
    /\ JustCompleted /\ EmptyAudio(completed) /\ TargetExists(completed)
    /\ completed.reply = <<"hi there">>
    /\ ~HasType(TurnMessages(completed), "audio")

-----------------------------------------------------------------------------
(* C15 *)

\* C15 (as claimed): for every pending Text-mode turn, the sequence handed to
\* the chat completion is the History Window of the target thread's log before
\* the turn, followed by the new user turn, preceded by the default system
\* instruction exactly when the character has no persona slug.
C15_CompletionGetsWindowAndTurn ==
    \A t \in inflight :
        (~t.image /\ t.stage \in {"chat", "speech"} /\ TargetExists(t)) =>
            LET log == TargetMessages(t)
                before == SubSeq(log, 1, Len(log) - 1)
                turn == [role |-> "user", content |-> t.prompt]
            IN t.request =
                  (IF Truthy(character.slug) THEN <<>> ELSE <<DefaultSystemMessage>>)
                  \o TextWindow(before, HistoryLimit) \o <<turn>>

\* A Text-mode turn is pending at the chat completion for a thread that held
\* more Text messages than the history limit.
C15_LongHistoryPending ==
    \E t \in inflight :
        /\ ~t.image /\ t.stage = "chat" /\ TargetExists(t)
        /\ Cardinality(TextPositions(TargetMessages(t))) > HistoryLimit + 1
        /\ ~Truthy(character.slug)

-----------------------------------------------------------------------------
(* C16 *)

\* C16: for the log of the active thread of every reachable state, the
\* History Window has at most 20 entries, exactly min(20, number of Text
\* messages) of them, and they are the most recent Text messages of the log
\* (never an Image or Audio message) as {role, content}, in the log's order.
C16_HistoryWindow ==
    LET window == historyForCompletion
        n == Cardinality(TextPositions(activeMessages))
    IN /\ Len(window) <= HistoryLimit
       /\ Len(window) = IF n < HistoryLimit THEN n ELSE HistoryLimit
       /\ window = TextWindow(activeMessages, HistoryLimit)

\* The active log holds more Text messages than the limit, with an Image and
\* an Audio message among them.
C16_LongMixedLog ==
    /\ Cardinality(TextPositions(activeMessages)) > HistoryLimit
    /\ HasType(activeMessages, "image")
    /\ HasType(activeMessages, "audio")
    /\ Len(historyForCompletion) = HistoryLimit

-----------------------------------------------------------------------------
(* C17 *)

\* C17: in every step, the log of every thread that exists before and after
\* the step is a prefix of its log after the step: no message is removed,
\* reordered or modified, and the length never decreases.
C17_AppendOnly ==
    [][ \A id \in ThreadIdsOf(threads) \cap ThreadIdsOf(threads') :
            IsPrefix(MessagesOf(threads, id), MessagesOf(threads', id)) ]_vars

\* A turn completed on a restored thread that already held messages, after
\* another thread was deleted.
C17_GrownRestoredThread ==
    /\ JustCompleted /\ completed.target = SavedId(1) /\ TargetExists(completed)
    /\ Len(TargetMessages(completed)) > Len(TurnMessages(completed))
    /\ Len(TurnMessages(completed)) >= 2
    /\ SavedId(2) \notin ThreadIdsOf(threads)

-----------------------------------------------------------------------------
(* C18 *)

\* C18 (as claimed): in every state where a turn is pending the processing
\* indicator is set ('image' for an Image-mode turn, 'text' otherwise), and in
\* every state where no turn is pending it is null.
C18_IndicatorWhilePending ==
    /\ \A t \in inflight :
          pendingIndicator = IF t.image THEN "image" ELSE "text"
    /\ inflight = {} => pendingIndicator = "null"

\* The user created or selected another thread while a turn is pending.
C18_ThreadChangedInFlight ==
    \E t \in inflight :
        /\ TargetExists(t)
        /\ activeThreadId # t.target
        /\ isProcessing

-----------------------------------------------------------------------------
(* C19 *)

-----------------------------------------------------------------------------
(* C20 *)

-----------------------------------------------------------------------------
(* C21 *)

\* C21: the hydration step that finds a stored state with a non-empty thread
\* list installs the stored threads; it makes the stored activeThreadId the
\* active pointer when a stored thread has that id, and otherwise (the id is
\* missing or names no stored thread) the id of the first stored thread; it
\* completes hydration and sets no error.
C21_RestoreSelectsThread ==
    [][ (~isHydrated /\ isHydrated' /\ storage.kind = "state" /\ Len(storage.threads) > 0)
           => /\ threads' = storage.threads
              /\ activeThreadId' =
                    IF storage.activeThreadId \in ThreadIdsOf(storage.threads)
                    THEN storage.activeThreadId
                    ELSE storage.threads[1].id
              /\ ResolveActive(threads', activeThreadId').id = activeThreadId'
              /\ errorMessage' = errorMessage ]_vars

\* The session restored a state stored without activeThreadId.
C21_RestoredWithoutPointer ==
    /\ isHydrated
    /\ character = BlankPhoto
    /\ threads = SavedThreads
    /\ activeThreadId = SavedId(1)
    /\ storage = Stored(SavedId(1), SavedThreads)

-----------------------------------------------------------------------------
(* C22 *)

\* C22: a hydration step whose read fails (unparseable item, getItem throws)
\* leaves the threads, the active pointer and the error state as they were
\* and marks hydration complete; a step whose write fails leaves the storage
\* as it was, never empties the thread list and sets the error state only as
\* the step does with a working storage (to null, or to a turn's failure
\* message on completion); and a hydrated idle session with a non-blank input
\* accepts a submit whatever the storage did.
C22_StorageFailuresIgnored ==
    /\ [](Len(threads) >= 1)
    /\ []((isHydrated /\ ~isProcessing /\ Truthy(Trim(input))) => sendAccepted)
    /\ [][ (~isHydrated /\ isHydrated' /\ storage.kind \in {"garbage", "broken"})
              => /\ threads' = threads
                 /\ activeThreadId' = activeThreadId
                 /\ errorMessage' = errorMessage ]_vars
    /\ [][ storage.kind = "broken"
              => /\ storage' = storage
                 /\ errorMessage' # errorMessage =>
                       \/ errorMessage' = Null
                       \/ completed' # NoTurn /\ errorMessage' = completed'.resp.error ]_vars

\* A turn succeeded in a session whose storage throws on every access.
C22_TurnWithBrokenStorage ==
    /\ storage = Broken
    /\ JustCompleted /\ PlainSucceeded(completed) /\ TargetExists(completed)
    /\ Len(TargetMessages(completed)) = 2
    /\ errorMessage = Null

-----------------------------------------------------------------------------
(* C23 *)

\* C23: a turn waiting for speech synthesis is a voice turn that holds the
\* reply its chat call returned; a turn waiting for the image description is
\* an image turn that holds the image its generate/edit call returned; and at
\* most one turn, hence one provider call, is in flight at any time.
C23_ProviderCallsSequential ==
    /\ Cardinality(inflight) <= 1
    /\ \A t \in inflight :
          /\ t.stage = "speech" => ~t.image /\ t.voice /\ Truthy(t.reply)
          /\ t.stage = "describe" => t.image /\ Truthy(t.imageBase64)
          /\ t.stage \in {"chat", "generate", "edit"}
                => ~Truthy(t.reply) /\ ~Truthy(t.imageBase64)

\* A voice turn whose chat call has returned and whose speech call is out.
C23_SpeechCallOut ==
    \E t \in inflight : t.stage = "speech" /\ t.reply = <<"hi there">>

-----------------------------------------------------------------------------
(* C24 *)

ImageUrlRequiredMsg == <<"imageUrl is required for edit mode">>

\* C24: an image turn waits for editImage exactly if the edit flag was set
\* and the character has a non-blank photo when it was submitted (neither
\* changes while the turn is pending), and for generateImage otherwise; an
\* edit request carries the character's photo URL; no response to a turn is
\* the "imageUrl is required" error; a text or voice turn never waits for
\* generateImage, editImage or describeImage.
C24_EditOrGenerate ==
    \A t \in inflight \cup ({completed} \ {NoTurn}) :
        /\ t.resp.error # ImageUrlRequiredMsg
        /\ t.stage = "edit" => t.image /\ t.edit
        /\ t.stage = "generate" => t.image /\ ~t.edit
        /\ ~t.image => /\ t.stage \in {"chat", "speech", "response"}
                       /\ ~t.edit /\ ~Truthy(t.imageBase64)
        /\ t.image => t.stage \in {"generate", "edit", "describe", "response"}
        /\ t.edit => t.imageUrl = character.photoUrl /\ Truthy(Trim(t.imageUrl))
        /\ (t.image /\ t \in inflight)
              => (t.edit <=> (isEditMode /\ Truthy(character.photoUrl)
                                         /\ Truthy(Trim(character.photoUrl))))

\* An edit request is out for a character with a photo.
C24_EditCallOut ==
    \E t \in inflight : t.stage = "edit" /\ t.imageUrl = Luna.photoUrl

-----------------------------------------------------------------------------
(* C25 *)

\* The provider requests a turn has behind it at each stage of its route.
RequestsIssued(stage) ==
    CASE stage \in {"chat", "generate", "edit"} -> 1
      [] stage \in {"speech", "describe"} -> 2
      [] OTHER -> 3

\* C25: each step of a route moves its turn forward: from the primary call to
\* the secondary call or to the response, from the secondary call to the
\* response, never back and never to the same call again, so a turn issues
\* at most two provider requests; a failure of chat, generate, edit or speech
\* is followed directly by the error response; and a turn that has its
\* response changes no more until the component takes it.
C25_NoRetry ==
    [][ \A t \in inflight :
          \A u \in inflight' :
             (u.id = t.id /\ u # t)
                => /\ RequestsIssued(u.stage) > RequestsIssued(t.stage)
                   /\ t.stage # "response"
                   /\ (~u.resp.ok /\ u.resp.status = InternalError)
                         => u.stage = "response" ]_vars

\* Speech synthesis failed after the chat call succeeded, and the turn is
\* answered.
C25_SpeechFailedAnswered ==
    \E t \in inflight :
        /\ t.stage = "response" /\ t.voice /\ Truthy(t.reply)
        /\ ~t.resp.ok /\ t.resp.error = <<"quota exceeded">>

-----------------------------------------------------------------------------
(* C26 *)

\* A request the route rejects before any provider call.
Invalid(t) == IF t.image THEN ~Truthy(t.prompt) ELSE Len(t.request) = 0

-----------------------------------------------------------------------------
(* C27 *)

\* No turn is pending and the guard of handleSend rejects no submit for
\* being busy.
Idle == inflight = {} /\ ~isProcessing /\ pendingIndicator = "null"

\* C27: if every provider call returns and every settled await is resumed,
\* a session that is processing a turn becomes idle again: no turn pending,
\* indicator cleared, processing flag down.
C27_TurnCompletes == isProcessing ~> Idle

\* A turn has completed after its target thread was deleted and another
\* thread was selected.
C27_CompletedWithoutTarget ==
    /\ JustCompleted /\ ~TargetExists(completed) /\ Idle
    /\ activeThreadId # completed.target

-----------------------------------------------------------------------------
(* The single-thread component:                                            *)
(* src/app/experiences/[experienceId]/ChatExperience.tsx                   *)

\* useState(...) of the single-thread component
SingleInit ==
    [messages |-> <<>>, input |-> Null, isImageMode |-> FALSE, isVoiceMode |-> FALSE,
     isEditMode |-> FALSE, isProcessing |-> FALSE, pendingIndicator |-> "null",
     errorMessage |-> Null]

Single_canEditImage == Truthy(character.photoUrl) /\ Truthy(Trim(character.photoUrl))

Single_historyForCompletion(s) ==
    LET texts == SelectSeq(s.messages, LAMBDA message : message.type = "text")
        recent == SliceLast(texts, HistoryLimit)
    IN [i \in 1..Len(recent) |-> [role |-> recent[i].role, content |-> recent[i].content]]

Single_setInput(s, value) == [s EXCEPT !.input = value]

Single_handleToggleImageMode(s) ==
    LET next == ~s.isImageMode IN
    [s EXCEPT !.errorMessage = Null,
              !.isImageMode = next,
              !.isVoiceMode = IF next THEN FALSE ELSE @,
              !.isEditMode = IF next THEN FALSE ELSE @]

Single_handleToggleVoiceMode(s) ==
    LET next == ~s.isVoiceMode IN
    [s EXCEPT !.errorMessage = Null,
              !.isVoiceMode = next,
              !.isImageMode = IF next THEN FALSE ELSE @,
              !.isEditMode = IF next THEN FALSE ELSE @]

Single_toggleEditMode(s) == [s EXCEPT !.isEditMode = ~@]

\* handleSend up to its first await: the next state and the request posted.
Single_handleSend(s, turn) ==
    IF ~Truthy(Trim(s.input)) \/ s.isProcessing
    THEN [state |-> s, posted |-> {}]
    ELSE LET trimmedInput == Trim(s.input)
             userMessage == TextMessage(MsgId(turn, 1), "user", trimmedInput)
             currentImageMode == s.isImageMode
             currentVoiceMode == s.isVoiceMode
             currentEditMode == s.isEditMode /\ Single_canEditImage
             history == Single_historyForCompletion(s)
                         \o << [role |-> userMessage.role, content |-> userMessage.content] >>
             requestMessages ==
                 IF ~Truthy(character.slug) THEN <<DefaultSystemMessage>> \o history
                 ELSE history
             call == [NoTurn EXCEPT !.id = turn, !.image = currentImageMode,
                                    !.prompt = trimmedInput]
         IN [state |->
                [s EXCEPT !.input = Null, !.isProcessing = TRUE, !.errorMessage = Null,
                          !.messages = @ \o <<userMessage>>,
                          !.pendingIndicator = IF currentImageMode THEN "image" ELSE "text"],
             posted |->
                { IF currentImageMode
                  THEN ImageRouteEntry(
                          [call EXCEPT !.edit = currentEditMode,
                                       !.imageUrl = IF currentEditMode
                                                    THEN character.photoUrl ELSE Null])
                  ELSE ChatRouteEntry(
                          [call EXCEPT !.request = requestMessages,
                                       !.voice = currentVoiceMode]) }]


\* The try block once the route has answered: the messages its setMessages
\* calls append, or the Error it throws.
Single_TryBlock(t) ==
    LET data == t.resp IN
    IF t.image
    THEN IF ~data.ok
         THEN [thrown |-> TRUE, appended |-> <<>>,
               message |-> OrElse(data.error, <<"Image generation failed">>)]
         ELSE [thrown |-> FALSE,
               appended |->
                   << [TextMessage(MsgId(t.id, 2), "assistant", Null) EXCEPT
                          !.type = "image", !.imageBase64 = data.imageBase64,
                          !.description = OrElse(data.description, Null)] >>
                   \o (IF Truthy(data.description)
                       THEN << TextMessage(MsgId(t.id, 3), "assistant",
                                           <<"Here is ">> \o data.description) >>
                       ELSE <<>>),
               message |-> Null]
    ELSE IF ~data.ok
         THEN [thrown |-> TRUE, appended |-> <<>>,
               message |-> OrElse(data.error, <<"Unable to fetch response from Venice.">>)]
         ELSE [thrown |-> FALSE,
               appended |->
                   << TextMessage(MsgId(t.id, 2), "assistant", data.reply) >>
                   \o (IF t.voice /\ Truthy(data.audio.base64) /\ Truthy(data.audio.mimeType)
                       THEN << [TextMessage(MsgId(t.id, 3), "assistant", Null) EXCEPT
                                  !.type = "audio", !.audioBase64 = data.audio.base64,
                                  !.mimeType = data.audio.mimeType, !.text = data.reply] >>
                       ELSE <<>>),
               message |-> Null]

\* The finally block without setIsVoiceMode(false).
Single_finallyBlock_KeepsVoice(s) ==
    [s EXCEPT !.pendingIndicator = "null", !.isProcessing = FALSE,
              !.isImageMode = FALSE, !.isEditMode = FALSE]

Single_finallyBlock(s) ==
    [s EXCEPT !.pendingIndicator = "null", !.isProcessing = FALSE,
              !.isImageMode = FALSE, !.isVoiceMode = FALSE, !.isEditMode = FALSE]

\* handleSend from the route's response to its end: try, catch, finally.
Single_handleSendResume(s, t) ==
    LET outcome == Single_TryBlock(t)
        tried ==
            IF outcome.thrown
            THEN [s EXCEPT !.messages = @ \o
                              << TextMessage(MsgId(t.id, 2), "assistant",
                                             <<"Error: ">> \o outcome.message) >>,
                           !.errorMessage = outcome.message]
            ELSE [s EXCEPT !.messages = @ \o outcome.appended]
    IN Single_finallyBlock(tried)

\* The steps of the single-thread component from state s with the requests
\* fl in flight: each enabled control's handler, and the resumption of a
\* handleSend whose route has answered.
SingleSteps(s, fl, turn) ==
    { [state |-> Single_setInput(s, value), inflight |-> fl] :
         value \in { v \in TypedInputs : ~s.isProcessing } }
    \cup
    { [state |-> next, inflight |-> fl] :
         next \in { n \in { Single_handleToggleImageMode(s),
                            Single_handleToggleVoiceMode(s) } : ~s.isProcessing } }
    \cup
    { [state |-> next, inflight |-> fl] :
         next \in { n \in { Single_toggleEditMode(s) } :
                       ~(~Single_canEditImage \/ s.isProcessing \/ ~s.isImageMode) } }
    \cup
    { [state |-> sent.state, inflight |-> fl \cup sent.posted] :
         sent \in { x \in { Single_handleSend(s, turn) } :
                       ~(s.isProcessing \/ ~Truthy(Trim(s.input))) \/ ~s.isProcessing } }
    \cup
    { [state |-> Single_handleSendResume(s, t), inflight |-> fl \ {t}] :
         t \in { r \in fl : r.stage = "response" } }

-----------------------------------------------------------------------------
(* C28 *)

\* The multi-thread component seen as a single-thread one: the log of its
\* only thread and the composer state.
Single ==
    [messages |-> threads[1].messages, input |-> input, isImageMode |-> isImageMode,
     isVoiceMode |-> isVoiceMode, isEditMode |-> isEditMode,
     isProcessing |-> isProcessing, pendingIndicator |-> pendingIndicator,
     errorMessage |-> errorMessage]

\* The requests in flight, without the thread they are for.
Requests(fl) == { [t EXCEPT !.target = 0] : t \in fl }

\* The session runs on the one thread it was mounted with: nothing was
\* restored, no thread was created, deleted or selected.
SingleThreadRun ==
    /\ isHydrated /\ nextThreadId = 2
    /\ Len(threads) = 1 /\ threads[1].id = 1 /\ activeThreadId = 1

\* C28: in a run on the one initial thread, the hydrated session starts in
\* the single-thread component's initial state; every step of the session
\* that changes the thread's log, the input, a mode flag, the processing
\* flag, the indicator or the error state is a step of the single-thread
\* component from the same state with the same requests in flight, to the
\* same state and requests; and every such step of the single-thread
\* component is a step the session can take.
C28_SingleThreadEquivalent ==
    /\ []((SingleThreadRun /\ turnCount = 0 /\ inflight = {} /\ input = Null /\ mode = Mode(FALSE, FALSE, FALSE))
             => Single = SingleInit)
    /\ [][ (SingleThreadRun /\ SingleThreadRun')
              => IF Single' = Single
                 THEN Requests(inflight') = Requests(inflight) \/ Provider
                 ELSE [state |-> Single', inflight |-> Requests(inflight')]
                         \in SingleSteps(Single, Requests(inflight), turnCount + 1) ]_vars
    /\ [](SingleThreadRun =>
             \A x \in SingleSteps(Single, Requests(inflight), turnCount + 1) :
                 (/\ x.state # Single
                  /\ x.inflight \subseteq Requests(inflight) \/ turnCount < MaxTurns)
                    => ENABLED (/\ Next
                                /\ SingleThreadRun'
                                /\ Single' = x.state
                                /\ Requests(inflight') = x.inflight))

\* A voice turn has completed in a run on the one initial thread.
C28_SingleThreadVoiceTurn ==
    /\ SingleThreadRun /\ storage.kind = "state"
    /\ JustCompleted /\ completed.voice /\ completed.resp.ok
    /\ Len(Single.messages) = 3 /\ Single.messages[3].type = "audio"
    /\ ~Single.isVoiceMode /\ ~Single.isProcessing

-----------------------------------------------------------------------------
(* C29 *)

\* The threads that are there before and after a step and whose log the
\* step changes.
ChangedThreads ==
    { id \in ThreadIdsOf(threads) \cap ThreadIdsOf(threads') :
         MessagesOf(threads', id) # MessagesOf(threads, id) }

\* C29: a submit changes the log of the thread that is active when it is
\* invoked, which is the target of the turn it starts, and of no other; the
\* completion of a turn extends the log of the turn's target if that thread
\* still exists, whichever thread is selected by then, and changes nothing
\* if it was deleted; and no other step changes the log of a thread.
C29_ResultsLandInTarget ==
    [][ /\ turnCount' # turnCount
           => /\ ChangedThreads = { activeThread.id }
              /\ \A t \in inflight' \ inflight : t.target = activeThread.id
        /\ completed' # NoTurn
           => /\ ChangedThreads = { completed'.target } \cap ThreadIdsOf(threads)
              /\ ThreadIdsOf(threads') = ThreadIdsOf(threads)
              /\ completed'.target \in ThreadIdsOf(threads)
                    => /\ IsPrefix(MessagesOf(threads, completed'.target),
                                   MessagesOf(threads', completed'.target))
                       /\ Len(MessagesOf(threads', completed'.target))
                             > Len(MessagesOf(threads, completed'.target))
        /\ (turnCount' = turnCount /\ completed' = NoTurn)
           => ChangedThreads = {} ]_vars

\* A turn has completed while another thread was selected: its reply is in
\* the thread it was submitted in, and the selected thread is empty.
C29_LandedInOriginalThread ==
    /\ JustCompleted /\ TargetExists(completed)
    /\ activeThreadId # completed.target /\ activeThread.id # completed.target
    /\ Len(TargetMessages(completed)) = 2
    /\ activeMessages = <<>>

-----------------------------------------------------------------------------
(* C30 *)

\* What a mount of a fresh component restores from the storage.
Restored ==
    LET fresh == << createThread(<<"Session 1">>, 1) >>
    IN hydrate(storage, fresh, fresh[1].id)

\* C30: before hydration has completed the storage holds what it held at
\* mount; the step that completes hydration over a stored non-empty thread
\* set writes that thread set back; once hydrated, with a storage that takes
\* writes, the storage holds the current threads and active pointer after
\* every step; and a mount that restores it gets the same threads, in the
\* same order with the same messages, and the same active thread.
C30_PersistRoundTrip ==
    /\ [](~isHydrated => storage \in { m.storage : m \in Mounts })
    /\ []((isHydrated /\ storage.kind # "broken")
             => /\ storage.kind = "state"
                /\ storage.threads = threads
                /\ storage.activeThreadId = activeThreadId
                /\ Restored.threads = threads
                /\ ResolveActive(Restored.threads, Restored.activeThreadId) = activeThread)
    /\ [][ /\ (~isHydrated /\ storage.kind = "state" /\ Len(storage.threads) > 0)
              => storage'.threads = storage.threads
           /\ storage' # storage => isHydrated' ]_vars

\* A hydrated session over restored threads has created and selected a
\* thread and completed a turn in it: the storage holds all of it.
C30_SnapshotAfterTurn ==
    /\ isHydrated /\ storage.kind = "state"
    /\ Len(storage.threads) = 3 /\ storage.threads[1].id = SavedId(1)
    /\ storage.activeThreadId = storage.threads[3].id
    /\ Len(storage.threads[3].messages) = 2
    /\ ~isProcessing

====
